---- MODULE Spec2Model ----
(***************************************************************************)
(* The clipboard capture pipeline of EcoPaste: the debounced, locked       *)
(* listener of useClipboard, the retrying multi-format reader              *)
(* readClipboardWithRetry, and the classify / dedup / upsert pass          *)
(* processClipboard.                                                       *)
(***************************************************************************)
EXTENDS Integers, Sequences, FiniteSets, TLC

(***************************************************************************)
(* Program constants.                                                      *)
(***************************************************************************)
DEBOUNCE_MS == 300
RETRY_COUNT == 3
RETRY_DELAY_MS == 200

(***************************************************************************)
(* Bounds of the model.                                                    *)
(***************************************************************************)
\* Clipboard-changed notifications delivered in one run.
MaxNotifs == 3
\* The same, in the runs over a clipboard of several formats.
MaxCaptures == 2
\* Largest reading of the wall clock (formatDate) in one run.
MaxStamp == 1

\* The clock of the model advances in steps that divide both delays.
TickMs == DEBOUNCE_MS - RETRY_DELAY_MS

Min(a, b) == IF a < b THEN a ELSE b

\* JavaScript's undefined, for a string field and for a number field.
Undef == "undefined"
UndefNum == 0 - 1

\* A record's value is a string (text, rtf, html, and every stored value), a
\* list of paths (files) or a path (image, as directory and file name).
Str(s) == [str |-> s]
NoValue == [none |-> TRUE]

(***************************************************************************)
(* What the native clipboard layer can answer to one has/read pair.        *)
(*   k = "absent": the probe says the format is not there                  *)
(*   k = "fail"  : the probe or the read throws                            *)
(*   k = "ok"    : the read returns v                                      *)
(* For the image there is also k = "win": the primary probe says no and    *)
(* the Windows fallback returns v (v.size may be 0).                       *)
(***************************************************************************)
Absent == [k |-> "absent"]
Fail == [k |-> "fail"]
Ok(v) == [k |-> "ok", v |-> v]
Win(v) == [k |-> "win", v |-> v]

Img(dir, name, size, w, h) ==
    [path |-> [dir |-> dir, name |-> name], size |-> size, width |-> w, height |-> h]

TextValues == {"a", "b"}
RtfValues == {"r"}
HtmlValues == {"h"}
FilesValues == {[paths |-> <<"p", "q">>, size |-> 7]}
ImageValues ==
    { Img("t1", "x.png", 2048, 100, 50),
      Img("t2", "y.png", 2048, 100, 50),
      Img("t1", "z.png", 512, 10, 10),
      Img("t2", "x.png", 0, 0, 0) }

TextOutcomes == {Absent, Fail} \cup {Ok(v) : v \in TextValues}
RtfOutcomes == {Absent, Fail} \cup {Ok(v) : v \in RtfValues}
HtmlOutcomes == {Absent, Fail} \cup {Ok(v) : v \in HtmlValues}
ImageOutcomes ==
    {Absent, Fail} \cup {Ok(v) : v \in ImageValues} \cup {Win(v) : v \in ImageValues}
FilesOutcomes == {Absent, Fail} \cup {Ok(v) : v \in FilesValues}

\* Every answer of the clipboard to one attempt.
Outcomes ==
    [text : TextOutcomes, rtf : RtfOutcomes, html : HtmlOutcomes,
     image : ImageOutcomes, files : FilesOutcomes]

\* A clipboard of text, HTML and file lists, whose text read may fail.
DocumentOutcomes ==
    [text : {Absent, Fail, Ok("a")}, rtf : {Absent},
     html : {Absent} \cup {Ok(v) : v \in HtmlValues}, image : {Absent},
     files : {Absent} \cup {Ok(v) : v \in FilesValues}]

\* A clipboard that only ever holds plain text.
TextOnlyOutcomes ==
    [text : TextOutcomes, rtf : {Absent}, html : {Absent},
     image : {Absent}, files : {Absent}]

\* A clipboard of pictures: two of equal size and dimensions saved under
\* different names, one saved under the name of the first in another directory
\* with other dimensions, one that shares nothing with the others, and one
\* read before its bytes were written.
PictureValues ==
    { Img("t1", "x.png", 2048, 100, 50),
      Img("t1", "y.png", 2048, 100, 50),
      Img("t2", "x.png", 512, 10, 10),
      Img("t1", "z.png", 256, 8, 8),
      Img("t1", "w.png", 0, 0, 0) }

PictureOutcomes ==
    [text : {Absent}, rtf : {Absent}, html : {Absent},
     image : {Absent, Fail} \cup {Ok(v) : v \in PictureValues}, files : {Absent}]

\* Every combination of present formats; the plain text may be the empty
\* string, and its read may fail.
SnapshotOutcomes ==
    [text : {Absent, Fail, Ok("a"), Ok("")}, rtf : {Absent} \cup {Ok(v) : v \in RtfValues},
     html : {Absent} \cup {Ok(v) : v \in HtmlValues},
     image : {Absent, Ok(Img("t1", "x.png", 2048, 100, 50)), Ok(Img("t1", "w.png", 0, 0, 0))},
     files : {Absent} \cup {Ok(v) : v \in FilesValues}]

(***************************************************************************)
(* readClipboardWithRetry: one attempt.  An attempt is the record          *)
(* [result, thrown, probed]: the snapshot built so far, whether the        *)
(* attempt has thrown, and the formats probed so far, in order.            *)
(***************************************************************************)
NoEntry == [type |-> "none"]
Has(e) == e.type # "none"

EmptyResult ==
    [text |-> NoEntry, rtf |-> NoEntry, html |-> NoEntry,
     image |-> NoEntry, files |-> NoEntry]

\* The result declared once, outside the for loop.
CarriedResult(prev) == prev

\* const result: ReadClipboard = {} at the top of each attempt; prev is what
\* the attempt before left behind.
FreshResult(prev) == EmptyResult

NewAttempt(prev) == [result |-> FreshResult(prev), thrown |-> FALSE, probed |-> <<>>]

\* result.text?.count ?? own.length
CountOr(result, own) ==
    IF Has(result.text) THEN result.text.count ELSE Len(own)

ReadTextStep(a, o) ==
    IF a.thrown THEN a
    ELSE LET p == [a EXCEPT !.probed = Append(@, "text")]
         IN  CASE o.k = "ok" ->
                    [p EXCEPT !.result.text =
                        [count |-> Len(o.v), type |-> "text", value |-> Str(o.v)]]
               [] o.k = "fail" -> [p EXCEPT !.thrown = TRUE]
               [] OTHER -> p

ReadRTFStep(a, o) ==
    IF a.thrown THEN a
    ELSE LET p == [a EXCEPT !.probed = Append(@, "rtf")]
         IN  CASE o.k = "ok" ->
                    [p EXCEPT !.result.rtf =
                        [count |-> CountOr(a.result, o.v), type |-> "rtf", value |-> Str(o.v)]]
               [] o.k = "fail" ->
                    [p EXCEPT !.thrown = ~Has(a.result.text)]
               [] OTHER -> p

\* The HTML step tolerating its failure once anything at all was captured.
ReadHTMLStepLenient(a, o) ==
    IF a.thrown THEN a
    ELSE LET p == [a EXCEPT !.probed = Append(@, "html")]
         IN  CASE o.k = "ok" ->
                    [p EXCEPT !.result.html =
                        [count |-> CountOr(a.result, o.v), type |-> "html", value |-> Str(o.v)]]
               [] o.k = "fail" ->
                    [p EXCEPT !.thrown = ~Has(a.result.text) /\ ~Has(a.result.rtf)]
               [] OTHER -> p

ReadHTMLStep(a, o) ==
    IF a.thrown THEN a
    ELSE LET p == [a EXCEPT !.probed = Append(@, "html")]
         IN  CASE o.k = "ok" ->
                    [p EXCEPT !.result.html =
                        [count |-> CountOr(a.result, o.v), type |-> "html", value |-> Str(o.v)]]
               [] o.k = "fail" ->
                    [p EXCEPT !.thrown = ~Has(a.result.text)]
               [] OTHER -> p

ImageEntry(v) ==
    [count |-> v.size, type |-> "image", value |-> v.path,
     width |-> v.width, height |-> v.height]

ReadImageStep(a, o) ==
    IF a.thrown THEN a
    ELSE LET p == [a EXCEPT !.probed = Append(@, "image")]
         IN  CASE o.k = "ok" -> [p EXCEPT !.result.image = ImageEntry(o.v)]
               [] o.k = "win" ->
                    IF o.v.size > 0
                    THEN [p EXCEPT !.result.image = ImageEntry(o.v)]
                    ELSE p
               [] o.k = "fail" ->
                    [p EXCEPT !.thrown =
                        ~Has(a.result.text) /\ ~Has(a.result.html) /\ ~Has(a.result.rtf)]
               [] OTHER -> p

ReadFilesStep(a, o) ==
    IF a.thrown THEN a
    ELSE LET p == [a EXCEPT !.probed = Append(@, "files")]
         IN  CASE o.k = "ok" ->
                    [p EXCEPT !.result.files =
                        [count |-> o.v.size, type |-> "files", value |-> [paths |-> o.v.paths]]]
               [] o.k = "fail" ->
                    [p EXCEPT !.thrown =
                        /\ ~Has(a.result.text) /\ ~Has(a.result.html)
                        /\ ~Has(a.result.rtf) /\ ~Has(a.result.image)]
               [] OTHER -> p

\* The body of the for loop: a fresh result, then the five formats in order.
Attempt(prev, o) ==
    ReadFilesStep(
        ReadImageStep(
            ReadHTMLStep(
                ReadRTFStep(
                    ReadTextStep(NewAttempt(prev), o.text),
                    o.rtf),
                o.html),
            o.image),
        o.files)

\* The answers the attempt consumed: a format it never probed was not asked.
NotAsked == [k |-> "notasked"]
Asked(a, o) ==
    [f \in DOMAIN o |->
        IF \E i \in 1..Len(a.probed) : a.probed[i] = f THEN o[f] ELSE NotAsked]

(***************************************************************************)
(* processClipboard: the record builder.                                   *)
(***************************************************************************)
\* JavaScript truthiness of a string that may be undefined.
Truthy(s) == s # Undef /\ s # ""

\* files.value.join(" ")
RECURSIVE Join(_)
Join(paths) ==
    IF paths = <<>> THEN ""
    ELSE IF Len(paths) = 1 THEN paths[1]
    ELSE paths[1] \o " " \o Join(Tail(paths))

\* JSON.stringify of a list of strings
RECURSIVE Quoted(_)
Quoted(paths) ==
    IF paths = <<>> THEN ""
    ELSE IF Len(paths) = 1 THEN "\"" \o paths[1] \o "\""
    ELSE "\"" \o paths[1] \o "\"," \o Quoted(Tail(paths))
Stringify(paths) == "[" \o Quoted(paths) \o "]"

\* fullName of tauri-plugin-fs-pro: the file name with its extension
FullName(path) == path.name

\* The subtypes getClipboardTextSubtype can give the values of the model: none
\* of them is a URL, an e-mail address or a color, and exists() answers either way.
Subtypes == {Undef, "path"}

\* The initial record without its group.
InitialDataNoGroup(result, stamp, id) ==
    [createTime |-> stamp, favorite |-> FALSE, group |-> Undef, id |-> id,
     search |-> IF Has(result.text) THEN result.text.value.str ELSE Undef,
     type |-> Undef, count |-> UndefNum, value |-> NoValue, subtype |-> Undef,
     width |-> UndefNum, height |-> UndefNum]

\* const data = { createTime, favorite: false, group: "text", id, search: text?.value }
InitialData(result, stamp, id) ==
    [createTime |-> stamp, favorite |-> FALSE, group |-> "text", id |-> id,
     search |-> IF Has(result.text) THEN result.text.value.str ELSE Undef,
     type |-> Undef, count |-> UndefNum, value |-> NoValue, subtype |-> Undef,
     width |-> UndefNum, height |-> UndefNum]

\* Object.assign(data, entry) for an entry {count, type, value}
AssignEntry(data, e) ==
    [data EXCEPT !.count = e.count, !.type = e.type, !.value = e.value]

\* data.search || html?.value || rtf?.value || ""
FallbackValue(data, result) ==
    IF Truthy(data.search) THEN data.search
    ELSE IF Has(result.html) /\ Truthy(result.html.value.str) THEN result.html.value.str
    ELSE IF Has(result.rtf) /\ Truthy(result.rtf.value.str) THEN result.rtf.value.str
    ELSE ""

\* The chain synthesizing the text whenever the preference is on and html or
\* rtf is present, before it looks at the plain text.
BuildDataSynthesized(result, copyPlain, stamp, id, subtype) ==
    LET data == InitialData(result, stamp, id)
    IN  IF Has(result.files)
        THEN [AssignEntry(data, result.files) EXCEPT
                !.group = "files", !.search = Join(result.files.value.paths)]
        ELSE IF Has(result.html) /\ ~copyPlain
        THEN AssignEntry(data, result.html)
        ELSE IF Has(result.rtf) /\ ~copyPlain
        THEN AssignEntry(data, result.rtf)
        ELSE IF copyPlain /\ (Has(result.html) \/ Has(result.rtf))
        THEN LET fallbackValue == FallbackValue(data, result)
             IN  [data EXCEPT !.count = Len(fallbackValue), !.subtype = subtype,
                              !.type = "text", !.value = Str(fallbackValue)]
        ELSE IF Has(result.text)
        THEN [AssignEntry(data, result.text) EXCEPT !.subtype = subtype]
        ELSE IF Has(result.image)
        THEN [AssignEntry(data, result.image) EXCEPT
                !.group = "image",
                !.width = result.image.width, !.height = result.image.height]
        ELSE data

\* The chain with the plain text tested before html and rtf.
BuildDataTextFirst(result, copyPlain, stamp, id, subtype) ==
    LET data == InitialData(result, stamp, id)
    IN  IF Has(result.files)
        THEN [AssignEntry(data, result.files) EXCEPT
                !.group = "files", !.search = Join(result.files.value.paths)]
        ELSE IF Has(result.text)
        THEN [AssignEntry(data, result.text) EXCEPT !.subtype = subtype]
        ELSE IF Has(result.html) /\ ~copyPlain
        THEN AssignEntry(data, result.html)
        ELSE IF Has(result.rtf) /\ ~copyPlain
        THEN AssignEntry(data, result.rtf)
        ELSE IF Has(result.image)
        THEN [AssignEntry(data, result.image) EXCEPT
                !.group = "image",
                !.width = result.image.width, !.height = result.image.height]
        ELSE IF copyPlain /\ (Has(result.html) \/ Has(result.rtf))
        THEN LET fallbackValue == FallbackValue(data, result)
             IN  [data EXCEPT !.count = Len(fallbackValue), !.subtype = subtype,
                              !.type = "text", !.value = Str(fallbackValue)]
        ELSE data

\* The if / else-if chain over files, html, rtf, text, image, copyPlain.
BuildData(result, copyPlain, stamp, id, subtype) ==
    LET data == InitialData(result, stamp, id)
    IN  IF Has(result.files)
        THEN [AssignEntry(data, result.files) EXCEPT
                !.group = "files", !.search = Join(result.files.value.paths)]
        ELSE IF Has(result.html) /\ ~copyPlain
        THEN AssignEntry(data, result.html)
        ELSE IF Has(result.rtf) /\ ~copyPlain
        THEN AssignEntry(data, result.rtf)
        ELSE IF Has(result.text)
        THEN [AssignEntry(data, result.text) EXCEPT !.subtype = subtype]
        ELSE IF Has(result.image)
        THEN [AssignEntry(data, result.image) EXCEPT
                !.group = "image",
                !.width = result.image.width, !.height = result.image.height]
        ELSE IF copyPlain /\ (Has(result.html) \/ Has(result.rtf))
        THEN LET fallbackValue == FallbackValue(data, result)
             IN  [data EXCEPT !.count = Len(fallbackValue), !.subtype = subtype,
                              !.type = "text", !.value = Str(fallbackValue)]
        ELSE data

\* Whether the chain evaluates copyPlain with an effect on its choice: the
\* preference decides only between the branches of a snapshot holding html or
\* rtf and no files.
ReadsCopyPlain(result) ==
    ~Has(result.files) /\ (Has(result.html) \/ Has(result.rtf))

\* isEmpty(result) || Object.values(result).every(isEmpty)
IsEmptyResult(result) == \A f \in DOMAIN result : ~Has(result[f])

\* The early returns without the check for an image of no bytes.
DiscardedUntyped(data) == data.type = Undef

\* The two early returns after the chain.
Discarded(data) ==
    \/ data.type = Undef
    \/ data.type = "image" /\ data.count = 0

\* const sqlData = cloneDeep(data), then the storage form of the value
SqlData(data) ==
    IF data.type = "image" THEN [data EXCEPT !.value = Str(FullName(data.value))]
    ELSE IF data.type = "files" THEN [data EXCEPT !.value = Str(Stringify(data.value.paths))]
    ELSE data

(***************************************************************************)
(* The store (the history table) and the query of selectHistory.           *)
(***************************************************************************)
\* The query without its comparison of width, height and count.
MatchesPathOnly(rows, data, sqlData) ==
    { r \in rows : r.type = sqlData.type /\ r.value = sqlData.value }

\* The query comparing the stored value with the value of data, not of sqlData.
MatchesRawValue(rows, data, sqlData) ==
    IF sqlData.type = "image"
    THEN { r \in rows :
             /\ r.type = "image"
             /\ \/ r.value = data.value
                \/ /\ r.width = data.width
                   /\ r.height = data.height
                   /\ r.count = data.count }
    ELSE { r \in rows : r.type = sqlData.type /\ r.value = data.value }

Matches(rows, data, sqlData) ==
    IF sqlData.type = "image"
    THEN { r \in rows :
             /\ r.type = "image"
             /\ \/ r.value = sqlData.value
                \/ /\ r.width = data.width
                   /\ r.height = data.height
                   /\ r.count = data.count }
    ELSE { r \in rows : r.type = sqlData.type /\ r.value = sqlData.value }

\* An update that writes the fields of a fresh record along with createTime.
UpdateAndReset(rows, id, createTime) ==
    { IF r.id = id THEN [r EXCEPT !.createTime = createTime, !.favorite = FALSE] ELSE r :
        r \in rows }

\* updateHistory(id, { createTime })
UpdateHistory(rows, id, createTime) ==
    { IF r.id = id THEN [r EXCEPT !.createTime = createTime] ELSE r : r \in rows }

\* insertHistory(sqlData)
InsertHistory(rows, sqlData) == rows \cup {sqlData}

\* remove(state.list, { id })
RECURSIVE RemoveById(_, _)
RemoveById(l, id) ==
    IF l = <<>> THEN <<>>
    ELSE IF Head(l).id = id THEN RemoveById(Tail(l), id)
    ELSE <<Head(l)>> \o RemoveById(Tail(l), id)

\* state.list.unshift(entry)
Unshift(l, entry) == <<entry>> \o l

\* The reconciliation keeping the id nanoid gave the new capture.
ReconcileFreshId(l, visible, data, id) ==
    IF visible THEN Unshift(RemoveById(l, id), data) ELSE l

\* The reconciliation without its remove.
ReconcileNoRemove(l, visible, data, id) ==
    IF visible THEN Unshift(l, [data EXCEPT !.id = id]) ELSE l

\* The reconciliation done whatever the active filter.
ReconcileAlways(l, visible, data, id) ==
    Unshift(RemoveById(l, id), [data EXCEPT !.id = id])

\* if (visible) { remove(state.list, { id }); state.list.unshift({ ...data, id }) }
Reconcile(l, visible, data, id) ==
    IF visible THEN Unshift(RemoveById(l, id), [data EXCEPT !.id = id]) ELSE l

\* The new entry shown only once the insert has settled.
ShowNewLater(l, visible, data) == l

\* if (visible) { state.list.unshift(data) }
ShowNew(l, visible, data) ==
    IF visible THEN Unshift(l, data) ELSE l

\* state.group === "all" || state.group === group
Groups == {"all", "text", "image", "files"}
Visible(stateGroup, group) == stateGroup = "all" \/ stateGroup = group

(***************************************************************************)
(* useClipboard: the listener's closure, the timers of the runtime and     *)
(* the passes in flight.                                                   *)
(***************************************************************************)
VARIABLES
    debounceTimer,  \* let debounceTimer: the id of the pending timeout, 0 for null
    isProcessing,   \* let isProcessing
    timers,         \* the runtime's scheduled timeouts: [id, ms still to wait]
    passes,         \* the activations of processClipboard in flight
    store,          \* the rows of the history table
    list,           \* state.list
    nextId,         \* the ids nanoid() has handed out so far
    clock,          \* the last reading of the wall clock
    beeps,          \* calls of options.beforeRead so far
    hookView,       \* the timeouts that were scheduled when beforeRead last ran
    nNotif,         \* notifications delivered so far
    sinceLast,      \* ms since the last notification (saturating)
    allBeyond,      \* every notification came more than DEBOUNCE_MS after the one before
    nCancelled,     \* timeouts cleared by clearTimeout so far
    nSkipped,       \* timer callbacks that returned at the lock
    nInvoked,       \* calls of processClipboard so far
    chainFires,     \* timer callbacks run since the current burst began
    chainInvokes,   \* calls of processClipboard since the current burst began
    fireGap,        \* sinceLast at the last timer callback
    nEnded,         \* passes that have ended
    lastEnd         \* how the last pass ended, and the warnings it issued

closure == <<debounceTimer, isProcessing, timers>>
shared == <<store, list, nextId, clock>>
observers ==
    <<beeps, hookView, nNotif, sinceLast, allBeyond, nCancelled, nSkipped, nInvoked,
      chainFires, chainInvokes, fireGap, nEnded, lastEnd>>
vars == <<closure, passes, shared, observers>>

Saturated == DEBOUNCE_MS + TickMs

NoData == InitialData(EmptyResult, 0, 0)

NoAttempt ==
    [result |-> EmptyResult, thrown |-> FALSE, probed |-> <<>>,
     asked |-> [f \in DOMAIN EmptyResult |-> NotAsked]]

\* A call of processClipboard that has not yet awaited anything.
NewPass ==
    [pc |-> "read", attempt |-> 1, wait |-> 0, att |-> NoAttempt,
     returned |-> FALSE, result |-> EmptyResult,
     plain |-> FALSE, candidate |-> NoData, sqlData |-> NoData,
     stateGroup |-> Undef, visible |-> FALSE,
     matched |-> 0, write |-> "none", readWarn |-> 0, procWarn |-> 0,
     store0 |-> store, list0 |-> list]

\* The state after useMount has registered the listener, over a history
\* table holding rows and a list showing entries.
InitWith(rows, entries) ==
    /\ debounceTimer = 0
    /\ isProcessing = FALSE
    /\ timers = {}
    /\ passes = <<>>
    /\ store = rows
    /\ list = entries
    /\ nextId = 0
    /\ clock = 0
    /\ beeps = 0
    /\ hookView = {}
    /\ nNotif = 0
    /\ sinceLast = Saturated
    /\ allBeyond = TRUE
    /\ nCancelled = 0
    /\ nSkipped = 0
    /\ nInvoked = 0
    /\ chainFires = 0
    /\ chainInvokes = 0
    /\ fireGap = UndefNum
    /\ nEnded = 0
    /\ lastEnd = [outcome |-> "none", readWarn |-> 0, procWarn |-> 0]

\* An empty history.
Init == InitWith({}, <<>>)

\* A row of an earlier session: the text "a", marked as a favorite.
SeedRow ==
    [createTime |-> 0, favorite |-> TRUE, group |-> "text", id |-> 0,
     search |-> "a", type |-> "text", count |-> 1, value |-> Str("a"),
     subtype |-> Undef, width |-> UndefNum, height |-> UndefNum]

\* A history of one row, shown in the list or filtered out of it.
ReaderInit == \E entries \in {<<>>, <<SeedRow>>} : InitWith({SeedRow}, entries)

\* Two more rows of earlier sessions: the rtf "r" and the html "h".
OlderRow ==
    [createTime |-> 0, favorite |-> FALSE, group |-> "text", id |-> 0 - 1,
     search |-> Undef, type |-> "rtf", count |-> 1, value |-> Str("r"),
     subtype |-> Undef, width |-> UndefNum, height |-> UndefNum]
OldestRow ==
    [createTime |-> 0, favorite |-> FALSE, group |-> "text", id |-> 0 - 2,
     search |-> Undef, type |-> "html", count |-> 1, value |-> Str("h"),
     subtype |-> Undef, width |-> UndefNum, height |-> UndefNum]

\* A history of three rows; the list shows them all, or lacks the row of the
\* text "a", or the row of the rtf.
ListInit ==
    \E entries \in {<<OlderRow, SeedRow, OldestRow>>, <<OlderRow, OldestRow>>,
                     <<SeedRow, OldestRow>>} :
        InitWith({SeedRow, OlderRow, OldestRow}, entries)

(***************************************************************************)
(* The listener of COMMAND.CLIPBOARD_CHANGED.  It runs to completion; its  *)
(* three statements act in turn on s = [debounceTimer, timers, beeps,      *)
(* hookView].                                                              *)
(***************************************************************************)
TimerIds(ts) == {t.id : t \in ts}

\* options?.beforeRead?.()
CallBeforeRead(s) ==
    [s EXCEPT !.beeps = @ + 1, !.hookView = TimerIds(s.timers)]

\* The listener without its clearTimeout.
KeepPending(s) == s

\* if (debounceTimer) clearTimeout(debounceTimer)
ClearPending(s) ==
    IF s.debounceTimer # 0
    THEN [s EXCEPT !.timers = {t \in @ : t.id # s.debounceTimer}]
    ELSE s

\* debounceTimer = setTimeout(callback, DEBOUNCE_MS)
SetTimer(s, id) ==
    [s EXCEPT !.timers = @ \cup {[id |-> id, ms |-> DEBOUNCE_MS]},
              !.debounceTimer = id]

\* The listener calling beforeRead last, after the timer is restarted.
ListenerHookLast(s, id) == CallBeforeRead(SetTimer(ClearPending(s), id))

Listener(s, id) == SetTimer(ClearPending(CallBeforeRead(s)), id)

Notify(cap) ==
    /\ nNotif < cap
    /\ LET s == Listener([debounceTimer |-> debounceTimer, timers |-> timers,
                          beeps |-> beeps, hookView |-> hookView], nNotif + 1)
           newBurst == sinceLast >= DEBOUNCE_MS
       IN  /\ debounceTimer' = s.debounceTimer
           /\ timers' = s.timers
           /\ beeps' = s.beeps
           /\ hookView' = s.hookView
           /\ nCancelled' = nCancelled + Cardinality(timers) + 1 - Cardinality(s.timers)
           /\ chainFires' = IF newBurst THEN 0 ELSE chainFires
           /\ chainInvokes' = IF newBurst THEN 0 ELSE chainInvokes
           /\ allBeyond' = (allBeyond /\ (nNotif = 0 \/ sinceLast > DEBOUNCE_MS))
    /\ nNotif' = nNotif + 1
    /\ sinceLast' = 0
    /\ UNCHANGED <<isProcessing, passes, shared, nSkipped, nInvoked, fireGap, nEnded, lastEnd>>

(***************************************************************************)
(* The timer callback.                                                     *)
(***************************************************************************)
\* The callback without its lock check.
LockIgnored == FALSE

\* if (isProcessing) return
LockHeld == isProcessing

\* A callback that, finding the lock held, schedules itself again.
RetryFiring(ts, t) == (ts \ {t}) \cup {[id |-> t.id, ms |-> DEBOUNCE_MS]}

\* The timeouts left after a callback that returned at the lock.
SkipFiring(ts, t) == ts \ {t}

Fire ==
    \E t \in timers :
        /\ t.ms = 0
        /\ debounceTimer' = 0
        /\ fireGap' = sinceLast
        /\ chainFires' = chainFires + 1
        /\ IF LockHeld
           THEN /\ timers' = SkipFiring(timers, t)
                /\ nSkipped' = nSkipped + 1
                /\ UNCHANGED <<isProcessing, passes, nInvoked, chainInvokes>>
           ELSE /\ timers' = timers \ {t}
                /\ isProcessing' = TRUE
                /\ passes' = Append(passes, NewPass)
                /\ nInvoked' = nInvoked + 1
                /\ chainInvokes' = chainInvokes + 1
                /\ UNCHANGED nSkipped
        /\ UNCHANGED <<shared, beeps, hookView, nNotif, sinceLast, allBeyond, nCancelled,
                       nEnded, lastEnd>>

(***************************************************************************)
(* Time.  A timeout runs when it is due, so time does not pass a due one.  *)
(***************************************************************************)
Tick ==
    /\ \A t \in timers : t.ms > 0
    /\ \A i \in 1..Len(passes) : passes[i].pc = "delay" => passes[i].wait > 0
    /\ timers' = {[t EXCEPT !.ms = @ - TickMs] : t \in timers}
    /\ passes' = [i \in 1..Len(passes) |->
                    IF passes[i].pc = "delay"
                    THEN [passes[i] EXCEPT !.wait = @ - TickMs]
                    ELSE passes[i]]
    /\ sinceLast' = Min(sinceLast + TickMs, Saturated)
    /\ UNCHANGED <<debounceTimer, isProcessing, shared, beeps, hookView, nNotif, allBeyond,
                   nCancelled, nSkipped, nInvoked, chainFires, chainInvokes, fireGap,
                   nEnded, lastEnd>>

(***************************************************************************)
(* processClipboard, one step per resumption of the pass.                  *)
(***************************************************************************)
timing == <<debounceTimer, timers, beeps, hookView, nNotif, sinceLast, allBeyond,
            nCancelled, nSkipped, nInvoked, chainFires, chainInvokes, fireGap>>

RemoveAt(q, i) == SubSeq(q, 1, i - 1) \o SubSeq(q, i + 1, Len(q))

\* The reset written after the await, with no try / finally: a pass that
\* throws leaves the flag as it is.
ResetAfterAwait(outcome, flag) == IF outcome = "rejected" THEN flag ELSE FALSE

\* finally { isProcessing = false }: the flag once the pass has ended in
\* outcome, flag being its value until then.
Finally(outcome, flag) == FALSE

\* The pass returns or throws; the callback's finally block runs.
EndPass(i, p, outcome) ==
    /\ passes' = RemoveAt(passes, i)
    /\ isProcessing' = Finally(outcome, isProcessing)
    /\ nEnded' = nEnded + 1
    /\ lastEnd' = [outcome |-> outcome, readWarn |-> p.readWarn, procWarn |-> p.procWarn]

Continue(i, p) ==
    /\ passes' = [passes EXCEPT ![i] = p]
    /\ UNCHANGED <<isProcessing, nEnded, lastEnd>>

\* The catch of the read without its message.warning.
LogReadOnly(p) == p

\* message.warning(clipboard_read_failed)
WarnRead(p) == [p EXCEPT !.readWarn = @ + 1]

\* message.warning(clipboard_process_failed)
WarnProcess(p) == [p EXCEPT !.procWarn = @ + 1]

\* The catch of the read without its return: the pass goes on without a
\* snapshot, throws in the second try block and warns there again.
WarnReadThenProcess(p) == WarnProcess(WarnRead(p))

\* catch (err) { logError(...); message.warning(...); return }
OnReadFailure(p) == WarnRead(p)

\* One attempt of readClipboardWithRetry, and what follows its outcome.
ReadAttempt(i, answers) ==
    /\ passes[i].pc = "read"
    /\ \E o \in answers :
        LET a == Attempt(passes[i].att.result, o)
            p == [passes[i] EXCEPT
                    !.att = [result |-> a.result, thrown |-> a.thrown,
                             probed |-> a.probed, asked |-> Asked(a, o)]]
        IN  IF ~a.thrown
            THEN Continue(i, [p EXCEPT !.pc = "classify", !.returned = TRUE,
                                       !.result = a.result])
            ELSE IF p.attempt < RETRY_COUNT
            THEN Continue(i, [p EXCEPT !.pc = "delay", !.wait = RETRY_DELAY_MS])
            ELSE EndPass(i, OnReadFailure(p), "readFailed")
    /\ UNCHANGED <<shared, timing>>

\* await delay(RETRY_DELAY_MS) is over: attempt++
RetryWake(i) ==
    /\ passes[i].pc = "delay"
    /\ passes[i].wait = 0
    /\ Continue(i, [passes[i] EXCEPT !.pc = "read", !.attempt = @ + 1])
    /\ UNCHANGED <<shared, timing>>

\* Whether the chain asks getClipboardTextSubtype for a subtype.
AsksSubtype(result, copyPlain) ==
    /\ ~Has(result.files)
    /\ copyPlain \/ (~Has(result.html) /\ ~Has(result.rtf))
    /\ Has(result.text) \/ (~Has(result.image) /\ (Has(result.html) \/ Has(result.rtf)))

\* From the snapshot to the storage form: lines 172 to 239.
Classify(i, subtypes) ==
    /\ passes[i].pc = "classify"
    /\ LET p == [passes[i] EXCEPT !.att = NoAttempt]
       IN  IF IsEmptyResult(p.result)
           THEN /\ EndPass(i, p, "empty")
                /\ UNCHANGED <<nextId, clock>>
           ELSE \E copyPlain \in BOOLEAN, stamp \in clock..Min(clock + 1, MaxStamp),
                   fullNameOk \in BOOLEAN :
                \E subtype \in IF AsksSubtype(p.result, copyPlain) THEN subtypes ELSE {Undef} :
                   LET d == BuildData(p.result, copyPlain, stamp, nextId + 1, subtype)
                   IN  /\ nextId' = nextId + 1
                       /\ clock' = stamp
                       /\ IF Discarded(d)
                          THEN fullNameOk /\ EndPass(i, p, "discarded")
                          ELSE IF d.type = "image" /\ ~fullNameOk
                          THEN EndPass(i, WarnProcess(p), "processFailed")
                          ELSE /\ d.type = "image" \/ fullNameOk
                               /\ Continue(i, [p EXCEPT !.pc = "select", !.candidate = d,
                                                        !.sqlData = SqlData(d),
                                                        !.plain = copyPlain /\ ReadsCopyPlain(p.result)])
    /\ UNCHANGED <<store, list, timing>>

\* The query has settled: lines 241 to 282, up to the store write it issues.
Select(i) ==
    /\ passes[i].pc = "select"
    /\ LET p == passes[i]
           ms == Matches(store, p.candidate, p.sqlData)
       IN  \/ /\ EndPass(i, WarnProcess(p), "processFailed")
              /\ UNCHANGED list
           \/ \E stateGroup \in Groups :
                LET visible == Visible(stateGroup, p.candidate.group)
                IN  IF ms # {}
                    THEN \E m \in ms :
                           /\ list' = Reconcile(list, visible, p.candidate, m.id)
                           /\ Continue(i, [p EXCEPT !.pc = "write", !.write = "update",
                                                    !.matched = m.id, !.stateGroup = stateGroup,
                                                    !.visible = visible])
                    ELSE /\ list' = ShowNew(list, visible, p.candidate)
                         /\ Continue(i, [p EXCEPT !.pc = "write", !.write = "insert",
                                                  !.stateGroup = stateGroup,
                                                  !.visible = visible])
    /\ UNCHANGED <<store, nextId, clock, timing>>

\* updateHistory or insertHistory has settled.  The promise of updateHistory is
\* returned, not awaited: its rejection passes the catch of processClipboard.
Write(i) ==
    /\ passes[i].pc = "write"
    /\ LET p == passes[i]
       IN  \/ /\ p.write = "update"
              /\ store' = UpdateHistory(store, p.matched, p.candidate.createTime)
              /\ EndPass(i, p, "updated")
           \/ /\ p.write = "update"
              /\ UNCHANGED store
              /\ EndPass(i, p, "rejected")
           \/ /\ p.write = "insert"
              /\ store' = InsertHistory(store, p.sqlData)
              /\ EndPass(i, p, "inserted")
           \/ /\ p.write = "insert"
              /\ UNCHANGED store
              /\ EndPass(i, WarnProcess(p), "processFailed")
    /\ UNCHANGED <<list, nextId, clock, timing>>

\* The resumptions of the passes in flight.
ReadStep(answers) == \E i \in 1..Len(passes) : ReadAttempt(i, answers)
WakeStep == \E i \in 1..Len(passes) : RetryWake(i)
ClassifyStep(subtypes) == \E i \in 1..Len(passes) : Classify(i, subtypes)
SelectStep == \E i \in 1..Len(passes) : Select(i)
WriteStep == \E i \in 1..Len(passes) : Write(i)

PassStep(answers, subtypes) ==
    \/ ReadStep(answers)
    \/ WakeStep
    \/ ClassifyStep(subtypes)
    \/ SelectStep
    \/ WriteStep

\* Any timing of up to MaxNotifs notifications, over a clipboard of plain text
\* none of whose values names an existing file; the history starts empty.
Next ==
    \/ Notify(MaxNotifs)
    \/ Fire
    \/ Tick
    \/ ReadStep(TextOnlyOutcomes)
    \/ WakeStep
    \/ ClassifyStep({Undef})
    \/ SelectStep
    \/ WriteStep

Spec == Init /\ [][Next]_vars

\* One notification over every answer of the clipboard, the history holding
\* one row.
ReaderNext ==
    \/ Notify(1)
    \/ Fire
    \/ Tick
    \/ ReadStep(Outcomes)
    \/ WakeStep
    \/ ClassifyStep(Subtypes)
    \/ SelectStep
    \/ WriteStep

ReaderSpec == ReaderInit /\ [][ReaderNext]_vars

\* Any timing of up to MaxCaptures notifications over a clipboard of documents,
\* the history holding one row.
DedupNext ==
    \/ Notify(MaxCaptures)
    \/ Fire
    \/ Tick
    \/ ReadStep(DocumentOutcomes)
    \/ WakeStep
    \/ ClassifyStep({Undef})
    \/ SelectStep
    \/ WriteStep

DedupSpec == ReaderInit /\ [][DedupNext]_vars

\* Any timing of up to MaxCaptures notifications over a clipboard of plain
\* text, the history holding one row.
FairNext ==
    \/ Notify(MaxCaptures)
    \/ Fire
    \/ Tick
    \/ ReadStep(TextOnlyOutcomes)
    \/ WakeStep
    \/ ClassifyStep({Undef})
    \/ SelectStep
    \/ WriteStep

\* The awaited operations settle, due timeouts run and time passes.
FairSpec ==
    /\ ReaderInit
    /\ [][FairNext]_vars
    /\ WF_vars(Tick)
    /\ WF_vars(Fire)
    /\ WF_vars(PassStep(TextOnlyOutcomes, {Undef}))

\* Any timing of up to MaxCaptures notifications over a clipboard of pictures,
\* the history holding one row.
ImageNext ==
    \/ Notify(MaxCaptures)
    \/ Fire
    \/ Tick
    \/ ReadStep(PictureOutcomes)
    \/ WakeStep
    \/ ClassifyStep({Undef})
    \/ SelectStep
    \/ WriteStep

ImageSpec == ReaderInit /\ [][ImageNext]_vars

\* One notification over every combination of present formats, the history
\* holding one row.
ClassifierNext ==
    \/ Notify(1)
    \/ Fire
    \/ Tick
    \/ ReadStep(SnapshotOutcomes)
    \/ WakeStep
    \/ ClassifyStep(Subtypes)
    \/ SelectStep
    \/ WriteStep

ClassifierSpec == ReaderInit /\ [][ClassifierNext]_vars

\* Any timing of up to MaxCaptures notifications over a clipboard of plain
\* text, the history holding three rows.
ListNext ==
    \/ Notify(MaxCaptures)
    \/ Fire
    \/ Tick
    \/ ReadStep(TextOnlyOutcomes)
    \/ WakeStep
    \/ ClassifyStep({Undef})
    \/ SelectStep
    \/ WriteStep

ListSpec == ListInit /\ [][ListNext]_vars

(***************************************************************************)
(* Properties of the debouncer and the lock.                               *)
(***************************************************************************)
InFlight == Len(passes)

\* A step that runs a timer callback.
FiringStep == chainFires' = chainFires + 1

\* A step in which pass i ends.
Ends(i) == nEnded' = nEnded + 1 /\ passes' = RemoveAt(passes, i)

\* C1: at most one processClipboard pass is in flight at any moment, and the
\* processing flag is set exactly while that pass is in flight, up to and
\* including its store write.
C1_AtMostOnePass ==
    /\ InFlight <= 1
    /\ isProcessing <=> InFlight = 1

\* A timer callback was skipped while the pass was waiting for its store write.
C1_Witness ==
    /\ nSkipped >= 1
    /\ InFlight = 1
    /\ passes[1].pc = "write"

\* C2: a burst of notifications, each less than DEBOUNCE_MS after the one
\* before, runs the timer callback exactly once, DEBOUNCE_MS after the last of
\* them, and that callback calls processClipboard exactly once when no pass is
\* in flight.
C2_BurstCoalesced ==
    /\ [](/\ chainFires <= 1
          /\ chainInvokes <= chainFires
          /\ (nNotif >= 1 /\ timers = {}) => chainFires = 1
          /\ chainFires = 1 => fireGap = DEBOUNCE_MS)
    /\ [][FiringStep => (chainInvokes' = chainInvokes + 1 <=> InFlight = 0)]_vars

\* Three notifications in one burst: two timeouts cleared, one callback, one pass.
C2_Witness ==
    /\ nNotif = 3
    /\ nCancelled = 2
    /\ chainFires = 1
    /\ chainInvokes = 1
    /\ nInvoked = 1

\* C3 as stated: notifications more than DEBOUNCE_MS apart give one pass each,
\* however long a pass takes.
C3_OnePassEach ==
    (allBeyond /\ timers = {}) => nInvoked = nNotif

\* C3, amended: notifications more than DEBOUNCE_MS apart give one timer
\* callback each; a callback that finds a pass in flight is skipped, so there
\* is one pass each exactly when no callback was skipped.
C3_OneFiringEach ==
    (allBeyond /\ timers = {}) =>
        /\ nCancelled = 0
        /\ nInvoked + nSkipped = nNotif
        /\ nSkipped = 0 <=> nInvoked = nNotif

\* Three notifications far apart, the second callback skipped by a slow pass.
C3_Witness ==
    /\ allBeyond
    /\ timers = {}
    /\ nNotif = 3
    /\ nSkipped = 1
    /\ nInvoked = 2

\* C4: a timer callback that finds a pass in flight is skipped: it starts no
\* pass and leaves the flag, the pass, the store and the list as they are; it is
\* never queued or retried, every timeout being cleared, pending, skipped or
\* run exactly once; and a pass starts only in a timer callback.
C4_SkippedNotQueued ==
    /\ [](nInvoked + nSkipped + nCancelled + Cardinality(timers) = nNotif)
    /\ [][nSkipped' = nSkipped + 1 =>
            /\ InFlight >= 1
            /\ passes' = passes
            /\ isProcessing' = isProcessing
            /\ nInvoked' = nInvoked
            /\ store' = store /\ list' = list
            /\ \E t \in timers : t.ms = 0 /\ timers' = timers \ {t}]_vars
    /\ [][nInvoked' # nInvoked =>
            /\ nInvoked' = nInvoked + 1
            /\ \E t \in timers : t.ms = 0 /\ timers' = timers \ {t}]_vars

\* A callback was skipped, the pass has ended since and nothing ran in its
\* place; the next notification's callback then started the second pass.
C4_Witness ==
    /\ nSkipped = 1
    /\ nEnded = 1
    /\ nNotif = 3
    /\ nInvoked = 2

\* C5: every pass that takes the lock releases it, however it ends: the flag
\* is false whenever no pass is in flight, and a set flag is eventually reset.
C5_LockReleased ==
    /\ [](InFlight = 0 => ~isProcessing)
    /\ (isProcessing ~> ~isProcessing)

\* A pass ended with its store update rejected and the next notification's
\* callback started a pass.
C5_Witness ==
    /\ lastEnd.outcome = "rejected"
    /\ nEnded = 1
    /\ nInvoked = 2
    /\ isProcessing

\* C6: beforeRead runs once per notification, in the listener, before the
\* pending timeout is cleared or a new one set, and at no other time.
C6_HookPerNotification ==
    /\ [](beeps = nNotif)
    /\ [][nNotif' = nNotif + 1 =>
            /\ beeps' = beeps + 1
            /\ hookView' = TimerIds(timers)]_vars
    /\ [][nNotif' = nNotif => beeps' = beeps]_vars

\* Three calls of beforeRead, for one pass: one notification's timeout was
\* cleared, another's callback skipped.
C6_Witness ==
    /\ beeps = 3
    /\ nInvoked = 1
    /\ nSkipped = 1
    /\ nCancelled = 1
(***************************************************************************)
(* Properties of the reader.                                               *)
(***************************************************************************)
Order == <<"text", "rtf", "html", "image", "files">>

\* The answers an attempt consumed, as the answers of an attempt of its own.
Replay(att) == Attempt(EmptyResult, att.asked)

Failed(att, f) == att.asked[f].k = "fail"
Captured(att, f) == Has(att.result[f])

\* C7: the read returns in the first attempt, of at most RETRY_COUNT, that does
\* not throw; the snapshot it returns is the one that attempt alone builds from
\* the answers it got; the pass then reads no more and has issued no warning.
C7_ReturnsFirstGoodAttempt ==
    \A i \in 1..Len(passes) :
        LET p == passes[i]
        IN  /\ p.attempt <= RETRY_COUNT
            /\ p.pc = "delay" => p.att.thrown /\ ~p.returned
            /\ p.pc = "classify" =>
                /\ p.returned
                /\ ~p.att.thrown
                /\ p.result = Replay(p.att).result
                /\ p.readWarn = 0
            /\ p.returned => p.pc \notin {"read", "delay"} /\ p.readWarn = 0

\* Two attempts threw and the third returned a snapshot holding text.
C7_Witness ==
    \E i \in 1..Len(passes) :
        /\ passes[i].pc = "classify"
        /\ passes[i].attempt = 3
        /\ Has(passes[i].result.text)

\* C8: a pass whose RETRY_COUNT attempts all threw ends with no snapshot, one
\* read-failed warning, no process-failed warning, and the store and the list
\* as they were when it began.
C8_ExhaustedRetries ==
    /\ [](\A i \in 1..Len(passes) :
            passes[i].pc \in {"read", "delay"} =>
                /\ ~passes[i].returned
                /\ passes[i].result = EmptyResult
                /\ passes[i].readWarn = 0 /\ passes[i].procWarn = 0
                /\ store = passes[i].store0 /\ list = passes[i].list0)
    /\ [][\A i \in 1..Len(passes) :
            (Ends(i) /\ passes[i].pc = "read") =>
                /\ passes[i].attempt = RETRY_COUNT
                /\ lastEnd' = [outcome |-> "readFailed", readWarn |-> 1, procWarn |-> 0]
                /\ store' = passes[i].store0
                /\ list' = passes[i].list0]_vars
    /\ [](lastEnd.outcome # "readFailed" => lastEnd.readWarn = 0)

\* A pass ended after three failed attempts, the seeded row still shown.
C8_Witness ==
    /\ lastEnd.outcome = "readFailed"
    /\ nEnded = 1
    /\ list = <<SeedRow>>

\* C9: an attempt throws exactly when the text step fails, or the rtf or html
\* step fails with no text captured, or the image step fails with none of
\* text, html, rtf captured, or the files step fails with nothing captured; a
\* failed step captures nothing; the steps run in the order text, rtf, html,
\* image, files, all five unless the attempt throws.
C9_Escalation ==
    \A i \in 1..Len(passes) :
        LET att == passes[i].att
            n == Len(att.probed)
        IN  n > 0 =>
            /\ att.probed = SubSeq(Order, 1, n)
            /\ ~att.thrown => n = Len(Order)
            /\ att.thrown => Failed(att, Order[n])
            /\ \A f \in DOMAIN att.asked : Failed(att, f) => ~Captured(att, f)
            /\ att.thrown <=>
                \/ Failed(att, "text")
                \/ Failed(att, "rtf") /\ ~Captured(att, "text")
                \/ Failed(att, "html") /\ ~Captured(att, "text")
                \/ /\ Failed(att, "image")
                   /\ ~Captured(att, "text") /\ ~Captured(att, "html")
                   /\ ~Captured(att, "rtf")
                \/ /\ Failed(att, "files")
                   /\ ~Captured(att, "text") /\ ~Captured(att, "html")
                   /\ ~Captured(att, "rtf") /\ ~Captured(att, "image")

\* Text was captured and the four other steps failed: the attempt returned.
C9_Witness ==
    \E i \in 1..Len(passes) :
        LET att == passes[i].att
        IN  /\ passes[i].pc = "classify"
            /\ Captured(att, "text")
            /\ \A f \in {"rtf", "html", "image", "files"} : Failed(att, f)
(***************************************************************************)
(* Properties of the dedup matcher and the upsert.                         *)
(***************************************************************************)
Documents == {"text", "rtf", "html", "files"}

SameKey(r, q) == r.type = q.type /\ r.value = q.value

\* C10: the store never holds two text, rtf, html or files rows of equal type
\* and value; a pass that inserts leaves exactly one row with the type and
\* value it captured; a repeat capture changes the createTime of the row it
\* matched, keeps its id, and adds no row.
C10_NoDuplicateDocuments ==
    /\ [](\A r, q \in store : (r.type \in Documents /\ SameKey(r, q)) => r = q)
    /\ [][\A i \in 1..Len(passes) :
            (Ends(i) /\ passes[i].sqlData.type \in Documents) =>
                LET p == passes[i]
                    same == {r \in store : SameKey(r, p.sqlData)}
                IN  /\ lastEnd'.outcome = "inserted" =>
                        same = {} /\ store' = store \cup {p.sqlData}
                    /\ lastEnd'.outcome = "updated" =>
                        \E r \in same :
                            /\ r.id = p.matched
                            /\ store' = (store \ {r}) \cup
                                    {[r EXCEPT !.createTime = p.candidate.createTime]}]_vars

\* The text "a" of the seeded row was captured again after a file list: the
\* row kept its id and took the time of the repeat.
C10_Witness ==
    /\ lastEnd.outcome = "updated"
    /\ nEnded = 2
    /\ Cardinality(store) = 2
    /\ \E r \in store : r.id = 0 /\ r.type = "text" /\ r.createTime = 1
    /\ \E r \in store : r.type = "files"

SameDims(r, d) == r.width = d.width /\ r.height = d.height /\ r.count = d.count

\* The stored rows an image capture duplicates: the image rows of the same
\* stored value or of the same width, height and count.
ImageTwins(rows, p) ==
    { r \in rows :
        /\ r.type = "image"
        /\ r.value = p.sqlData.value \/ SameDims(r, p.candidate) }

\* C11: an image capture matches a stored row exactly when the row is an image
\* of the same stored value or of the same width, height and count; a capture
\* that matches refreshes the createTime of one such row and adds none, a
\* capture that matches no row is inserted; so no two stored images share a
\* value or their width, height and count.
C11_ImageDedup ==
    /\ [](\A r, q \in store :
            (/\ r.type = "image" /\ q.type = "image"
             /\ r.value = q.value \/ SameDims(r, q)) => r = q)
    /\ [](\A i \in 1..Len(passes) :
            (passes[i].pc = "write" /\ passes[i].candidate.type = "image") =>
                LET p == passes[i]
                    twins == ImageTwins(store, p)
                IN  /\ p.write = "update" <=> twins # {}
                    /\ p.write = "insert" <=> twins = {}
                    /\ p.write = "update" => \E r \in twins : r.id = p.matched)
    /\ [][\A i \in 1..Len(passes) :
            (Ends(i) /\ passes[i].pc = "write" /\ passes[i].candidate.type = "image") =>
                LET p == passes[i]
                IN  /\ lastEnd'.outcome = "updated" =>
                        /\ Cardinality(store') = Cardinality(store)
                        /\ \E r \in ImageTwins(store, p) :
                              store' = (store \ {r}) \cup
                                  {[r EXCEPT !.createTime = p.candidate.createTime]}
                    /\ lastEnd'.outcome = "inserted" =>
                        /\ ImageTwins(store, p) = {}
                        /\ store' = store \cup {p.sqlData}
                        /\ Cardinality(store') = Cardinality(store) + 1]_vars

\* After one image was stored, a capture of the same width, height and count
\* under another name matched it and is about to refresh its createTime.
C11_Witness ==
    /\ nEnded = 1
    /\ lastEnd.outcome = "inserted"
    /\ \E i \in 1..Len(passes) :
        LET p == passes[i]
        IN  /\ p.pc = "write"
            /\ p.write = "update"
            /\ p.candidate.type = "image"
            /\ \E r \in store :
                  /\ r.id = p.matched
                  /\ r.value # p.sqlData.value
                  /\ SameDims(r, p.candidate)

\* C12: a pass that matched a stored row writes nothing to the store before its
\* update, and the update changes the createTime of that row alone: its id,
\* type, value, favorite and other fields, every other row, and the number of
\* rows stay as they were; an update that fails changes nothing.
C12_OnlyCreateTime ==
    /\ [](\A i \in 1..Len(passes) :
            passes[i].write = "update" =>
                /\ store = passes[i].store0
                /\ Cardinality({r \in store : r.id = passes[i].matched}) = 1)
    /\ [][\A i \in 1..Len(passes) :
            (Ends(i) /\ passes[i].write = "update") =>
                LET p == passes[i]
                    r == CHOOSE q \in store : q.id = p.matched
                IN  /\ lastEnd'.outcome \in {"updated", "rejected"}
                    /\ Cardinality(store') = Cardinality(store)
                    /\ \A q \in store : q # r => q \in store'
                    /\ \E n \in store' :
                          /\ n = [r EXCEPT !.createTime = n.createTime]
                          /\ store' = (store \ {r}) \cup {n}
                          /\ lastEnd'.outcome = "updated" =>
                                n.createTime = p.candidate.createTime
                          /\ lastEnd'.outcome = "rejected" => n = r]_vars

\* The favorite row of the earlier session was captured again: it is still the
\* only row, still a favorite, and carries the time of the repeat.
C12_Witness ==
    /\ lastEnd.outcome = "updated"
    /\ nEnded = 1
    /\ store = {[SeedRow EXCEPT !.createTime = 1]}

\* The active filter excludes the group of the candidate of pass p.
Excluded(p) == p.stateGroup # "all" /\ p.stateGroup # p.candidate.group

\* C13: when the active filter is neither "all" nor the group of the candidate,
\* the pass leaves the list as it found it and still issues its store write:
\* the insert of the storage form when no row matches, the createTime update
\* of the matched row when one does.
C13_VisibilityGate ==
    /\ [](\A i \in 1..Len(passes) :
            (passes[i].pc = "write" /\ Excluded(passes[i])) =>
                LET p == passes[i]
                IN  /\ list = p.list0
                    /\ store = p.store0
                    /\ p.write = "insert" <=> Matches(store, p.candidate, p.sqlData) = {}
                    /\ p.write = "update" <=> Matches(store, p.candidate, p.sqlData) # {})
    /\ [][\A i \in 1..Len(passes) :
            (Ends(i) /\ passes[i].pc = "write" /\ Excluded(passes[i])) =>
                LET p == passes[i]
                IN  /\ list' = p.list0
                    /\ lastEnd'.outcome = "inserted" =>
                            p.write = "insert" /\ store' = store \cup {p.sqlData}
                    /\ lastEnd'.outcome = "updated" =>
                            /\ p.write = "update"
                            /\ store' = UpdateHistory(store, p.matched, p.candidate.createTime)
                    /\ lastEnd'.outcome \in {"processFailed", "rejected"} => store' = store]_vars

\* Under filters that exclude them a new capture was inserted and then the text
\* of the seeded row refreshed, the list showing neither.
C13_Witness ==
    /\ nEnded = 2
    /\ lastEnd.outcome = "updated"
    /\ list = <<>>
    /\ Cardinality(store) = 2
    /\ \E r \in store : r.id = 0 /\ r.createTime = 1

(***************************************************************************)
(* Properties of the classifier.                                           *)
(***************************************************************************)
ZeroByte(d) == d.type = "image" /\ d.count = 0

\* The snapshot is classified as an image of no bytes, whatever the preference.
ZeroByteSnapshot(result) ==
    \A copyPlain \in BOOLEAN : ZeroByte(BuildData(result, copyPlain, 0, 0, Undef))

\* C14: a pass whose record is an image with count 0 ends at the
\* classification: it never reaches the query or a store write, leaves the
\* store and the list as it found them and issues no warning; no stored row
\* and no list entry is an image with count 0.
C14_ZeroByteImage ==
    /\ [](\A r \in store : ~ZeroByte(r))
    /\ [](\A k \in 1..Len(list) : ~ZeroByte(list[k]))
    /\ [](\A i \in 1..Len(passes) :
            passes[i].pc \in {"select", "write"} => ~ZeroByte(passes[i].candidate))
    /\ [][\A i \in 1..Len(passes) :
            (Ends(i) /\ passes[i].pc = "classify" /\ ZeroByteSnapshot(passes[i].result)) =>
                /\ lastEnd' = [outcome |-> "discarded", readWarn |-> 0, procWarn |-> 0]
                /\ store' = passes[i].store0
                /\ list' = passes[i].list0]_vars

\* An image was stored, then an image of no bytes was captured and dropped.
C14_Witness ==
    /\ nEnded = 2
    /\ lastEnd.outcome = "discarded"
    /\ Cardinality(store) = 2
    /\ \E r \in store : r.type = "image" /\ r.count > 0

\* The six rules of the precedence, by number.
Rule(k, result, copyPlain) ==
    CASE k = 1 -> Has(result.files)
      [] k = 2 -> Has(result.html) /\ ~copyPlain
      [] k = 3 -> Has(result.rtf) /\ ~copyPlain
      [] k = 4 -> Has(result.text)
      [] k = 5 -> Has(result.image)
      [] k = 6 -> copyPlain /\ (Has(result.html) \/ Has(result.rtf))

Rules == 1..6
RuleType == <<"files", "html", "rtf", "text", "image", "text">>
RuleGroup == <<"files", "text", "text", "text", "image", "text">>
RuleEntry == <<"files", "html", "rtf", "text", "image">>

\* The first rule the snapshot satisfies, 0 when it satisfies none.
FirstRule(result, copyPlain) ==
    IF \E k \in Rules : Rule(k, result, copyPlain)
    THEN CHOOSE k \in Rules :
            /\ Rule(k, result, copyPlain)
            /\ \A j \in Rules : j < k => ~Rule(j, result, copyPlain)
    ELSE 0

\* C15: the type of the record is that of the first rule the snapshot
\* satisfies, in the order files, html with the preference off, rtf with the
\* preference off, text, image, html or rtf with the preference on; its group,
\* count and value are those of that rule; a snapshot that satisfies no rule
\* ends the pass with the store and the list as they were and no warning.
C15_Precedence ==
    /\ [](\A i \in 1..Len(passes) :
            passes[i].pc \in {"select", "write"} =>
                LET p == passes[i]
                    k == FirstRule(p.result, p.plain)
                IN  /\ k \in Rules
                    /\ p.candidate.type = RuleType[k]
                    /\ p.candidate.group = RuleGroup[k]
                    /\ k < 6 =>
                          /\ p.candidate.value = p.result[RuleEntry[k]].value
                          /\ p.candidate.count = p.result[RuleEntry[k]].count
                    /\ k = 6 =>
                          /\ p.candidate.value \in
                                {p.result[f].value : f \in {g \in {"html", "rtf"} : Has(p.result[g])}}
                          /\ p.candidate.count = Len(p.candidate.value.str))
    /\ [][\A i \in 1..Len(passes) :
            (/\ Ends(i) /\ passes[i].pc = "classify"
             /\ \A copyPlain \in BOOLEAN : FirstRule(passes[i].result, copyPlain) = 0) =>
                /\ lastEnd'.outcome \in {"empty", "discarded"}
                /\ lastEnd'.readWarn = 0 /\ lastEnd'.procWarn = 0
                /\ store' = passes[i].store0
                /\ list' = passes[i].list0]_vars

\* A snapshot of rtf, html and an image, without text or files, under the
\* preference on: the image rule precedes the synthesized text.
C15_Witness ==
    \E i \in 1..Len(passes) :
        LET p == passes[i]
        IN  /\ p.pc = "select"
            /\ p.plain
            /\ Has(p.result.rtf) /\ Has(p.result.html) /\ Has(p.result.image)
            /\ ~Has(p.result.text) /\ ~Has(p.result.files)
            /\ p.candidate.type = "image"

\* The snapshot holds html and plain text, and no file list.
HtmlAndText(result) == Has(result.html) /\ Has(result.text) /\ ~Has(result.files)

\* The values a text derived from the html or rtf of the snapshot can have: a
\* payload of one of them, or the projection search || html || rtf.
Projections(result) ==
    {result[f].value : f \in {g \in {"html", "rtf"} : Has(result[g])}}
        \cup {Str(FallbackValue(InitialData(result, 0, 0), result))}

\* C16 as stated: a snapshot of html and plain text gives an html record under
\* the preference off, and under the preference on a text record whose value
\* is derived from the html or rtf.
C16_TextFromProjection ==
    \A i \in 1..Len(passes) :
        (passes[i].pc \in {"select", "write"} /\ HtmlAndText(passes[i].result)) =>
            LET p == passes[i]
            IN  /\ ~p.plain => p.candidate.type = "html"
                /\ p.plain =>
                      /\ p.candidate.type = "text"
                      /\ p.candidate.value \in Projections(p.result)

\* C16, amended: a snapshot of html and plain text, without a file list, gives
\* under the preference off an html record carrying the html, and under the
\* preference on the text record of the plain text itself, its value and count
\* those of the text entry even when the text is empty; the html and the rtf
\* are not consulted.
C16_TextFromTextEntry ==
    \A i \in 1..Len(passes) :
        (passes[i].pc \in {"select", "write"} /\ HtmlAndText(passes[i].result)) =>
            LET p == passes[i]
            IN  /\ ~p.plain =>
                      /\ p.candidate.type = "html"
                      /\ p.candidate.value = p.result.html.value
                /\ p.plain =>
                      /\ p.candidate.type = "text"
                      /\ p.candidate.value = p.result.text.value
                      /\ p.candidate.count = p.result.text.count
                      /\ p.candidate.search = p.result.text.value.str

\* Html beside an empty plain text under the preference on: the record is the
\* empty text, not the html.
C16_Witness ==
    \E i \in 1..Len(passes) :
        LET p == passes[i]
        IN  /\ p.pc = "select"
            /\ HtmlAndText(p.result)
            /\ p.plain
            /\ p.candidate.type = "text"
            /\ p.candidate.value = Str("")
            /\ p.candidate.count = 0

(***************************************************************************)
(* Properties of the failures and of the order of the list and the store.  *)
(***************************************************************************)
\* C17 as stated: a failure after the read, in the classification, the query,
\* the insert or the createTime update, is caught in processClipboard and
\* gives exactly one process-failed warning and no read-failed warning; no
\* pass ends by throwing.
C17_FailuresCaught ==
    /\ lastEnd.outcome # "rejected"
    /\ lastEnd.outcome = "processFailed" =>
            lastEnd.procWarn = 1 /\ lastEnd.readWarn = 0

\* C18 as stated: a pass whose insert or createTime update fails leaves the
\* list and the store as they were when it began.
C18_NothingPartiallyApplied ==
    [][\A i \in 1..Len(passes) :
        (/\ Ends(i) /\ passes[i].pc = "write"
         /\ lastEnd'.outcome \in {"processFailed", "rejected"}) =>
            /\ list' = passes[i].list0
            /\ store' = passes[i].store0]_vars

\* C19 as stated: on a repeat capture the list is reconciled only after the
\* createTime update has been performed, so while the update is pending the
\* list is as the pass found it.
C19_ReconcileAfterUpdate ==
    \A i \in 1..Len(passes) :
        (passes[i].pc = "write" /\ passes[i].write = "update") =>
            list = passes[i].list0

\* C20: on a new capture under a filter that shows its group, the candidate is
\* at the front of the list, above the entries the pass found, while the
\* insert is pending and the store holds no row of its id; the insert then
\* adds the storage form and leaves the list alone.
C20_ShownBeforeInsert ==
    /\ [](\A i \in 1..Len(passes) :
            (/\ passes[i].pc = "write" /\ passes[i].write = "insert"
             /\ ~Excluded(passes[i])) =>
                LET p == passes[i]
                IN  /\ list = <<p.candidate>> \o p.list0
                    /\ store = p.store0
                    /\ \A r \in store : r.id # p.candidate.id)
    /\ [][\A i \in 1..Len(passes) :
            (Ends(i) /\ passes[i].write = "insert") =>
                /\ list' = list
                /\ lastEnd'.outcome = "inserted" => store' = store \cup {passes[i].sqlData}
                /\ lastEnd'.outcome # "inserted" => store' = store]_vars

\* A new capture is shown at the front of the list while the store holds
\* only the row of the earlier session.
C20_Witness ==
    /\ store = {SeedRow}
    /\ Len(list) >= 1
    /\ \E i \in 1..Len(passes) :
        /\ passes[i].pc = "write"
        /\ passes[i].write = "insert"
        /\ list[1] = passes[i].candidate
        /\ list[1].id # SeedRow.id

(***************************************************************************)
(* Properties of the warnings, the list and the records.                   *)
(***************************************************************************)
Quiet == {"inserted", "updated", "empty", "discarded"}

\* C21: a pass issues at most one warning, the read-failed one when its read
\* failed and the process-failed one when its processing failed, never both;
\* a pass that ends in an insert, an update or a discard issues none.
C21_AtMostOneWarning ==
    /\ \A i \in 1..Len(passes) :
          /\ passes[i].readWarn = 0
          /\ passes[i].procWarn = 0
    /\ lastEnd.readWarn + lastEnd.procWarn <= 1
    /\ lastEnd.readWarn = 1 <=> lastEnd.outcome = "readFailed"
    /\ lastEnd.procWarn = 1 <=> lastEnd.outcome = "processFailed"
    /\ lastEnd.outcome \in Quiet => lastEnd.readWarn = 0 /\ lastEnd.procWarn = 0

\* A pass ended in the process-failed warning alone, the store and the list
\* still those of the earlier session.
C21_Witness ==
    /\ nEnded = 1
    /\ lastEnd = [outcome |-> "processFailed", readWarn |-> 0, procWarn |-> 1]
    /\ store = {SeedRow}
    /\ list = <<SeedRow>>

\* The entries of l whose id is not id, in their order.
Others(l, id) == SelectSeq(l, LAMBDA e : e.id # id)

\* The entries of l whose id is id.
Entries(l, id) == {k \in 1..Len(l) : l[k].id = id}

\* C22: on a repeat capture under a filter that shows its group, the list has
\* at its front the new capture under the id of the matched row, holds no
\* other entry of that id, and below the front the other entries it held, in
\* their order, whether or not it held an entry of that id; the update, done
\* or failed, leaves the list so.
C22_RepeatMovesToFront ==
    /\ [](\A i \in 1..Len(passes) :
            (/\ passes[i].pc = "write" /\ passes[i].write = "update"
             /\ ~Excluded(passes[i])) =>
                LET p == passes[i]
                IN  /\ Len(list) >= 1
                    /\ list[1] = [p.candidate EXCEPT !.id = p.matched]
                    /\ list[1].id # p.candidate.id
                    /\ \E r \in p.store0 : r.id = list[1].id
                    /\ Entries(list, p.matched) = {1}
                    /\ Tail(list) = Others(p.list0, p.matched))
    /\ [][\A i \in 1..Len(passes) :
            (Ends(i) /\ passes[i].write = "update") => list' = list]_vars

\* The text "a" is captured again while the list shows its row between two
\* others: the fresh entry is at the front under the id of the row, the two
\* others follow in their order.
C22_Witness ==
    \E i \in 1..Len(passes) :
        /\ passes[i].pc = "write"
        /\ passes[i].write = "update"
        /\ passes[i].list0 = <<OlderRow, SeedRow, OldestRow>>
        /\ passes[i].matched = SeedRow.id
        /\ list = <<[passes[i].candidate EXCEPT !.id = SeedRow.id], OlderRow, OldestRow>>

Types == {"text", "rtf", "html", "image", "files"}

GroupOf(type) ==
    CASE type = "files" -> "files"
      [] type = "image" -> "image"
      [] type \in {"text", "rtf", "html"} -> "text"
      [] OTHER -> Undef

WellTyped(r) == r.type \in Types /\ r.group = GroupOf(r.type)

\* C23: every row of the store and every entry of the list, and every record
\* a pass is about to put there, has one of the types text, rtf, html, image,
\* files and the group of its type: files for files, image for image, text for
\* text, rtf and html.
C23_TypedAndGrouped ==
    /\ \A r \in store : WellTyped(r)
    /\ \A k \in 1..Len(list) : WellTyped(list[k])
    /\ \A i \in 1..Len(passes) :
          passes[i].pc \in {"select", "write"} =>
              /\ WellTyped(passes[i].candidate)
              /\ WellTyped(passes[i].sqlData)

\* An html capture was inserted and is shown, in the group text.
C23_Witness ==
    /\ lastEnd.outcome = "inserted"
    /\ Len(list) >= 1
    /\ list[1].type = "html"
    /\ list[1].group = "text"
    /\ \E r \in store : r.id = list[1].id /\ r.type = "html" /\ r.group = "text"

\* C24: at most one timeout is pending, the one debounceTimer names; a
\* notification clears the pending timeout before it schedules its own; the
\* callback resets debounceTimer; so the only timeout that ever runs is that
\* of the latest notification, never a cleared one.
C24_SinglePendingTimer ==
    /\ [](/\ Cardinality(timers) <= 1
          /\ debounceTimer = 0 <=> timers = {}
          /\ \A t \in timers : t.id = debounceTimer)
    /\ [][nNotif' = nNotif + 1 =>
            /\ timers' = {[id |-> nNotif + 1, ms |-> DEBOUNCE_MS]}
            /\ debounceTimer' = nNotif + 1
            /\ nCancelled' = nCancelled + Cardinality(timers)]_vars
    /\ [][FiringStep =>
            /\ \E t \in timers :
                  /\ t.ms = 0
                  /\ t.id = debounceTimer
                  /\ t.id = nNotif
            /\ timers' = {}
            /\ debounceTimer' = 0]_vars

\* The second notification cleared the timeout of the first; its own has run
\* and started the only pass; nothing is pending.
C24_Witness ==
    /\ nNotif = 2
    /\ nCancelled = 1
    /\ chainFires = 1
    /\ nInvoked = 1
    /\ timers = {}
    /\ debounceTimer = 0

DistinctIds(l) == \A j, k \in 1..Len(l) : l[j].id = l[k].id => j = k

\* C25: the entries of the list have pairwise distinct ids after every step
\* of every pass, whether it inserts, repeats, discards or fails, and a pass
\* about to show its candidate as new holds an id no entry has.
C25_DistinctListIds ==
    /\ DistinctIds(list)
    /\ \A i \in 1..Len(passes) :
          passes[i].pc = "select" =>
              \A k \in 1..Len(list) : list[k].id # passes[i].candidate.id

\* A new text was shown and its insert failed, then the text "a" was captured
\* again: four entries of four ids over a store of three rows.
C25_Witness ==
    /\ nEnded = 2
    /\ lastEnd.outcome = "updated"
    /\ Cardinality(store) = 3
    /\ Len(list) = 4
    /\ list[1].id = SeedRow.id
    /\ list[2].type = "text" /\ list[2].id > 0

\* C26 as stated: an entry of the list and a row of the store of the same id
\* carry the same favorite flag, so a repeat capture of a favorite row leaves
\* its entry a favorite.
C26_FavoriteAgrees ==
    \A k \in 1..Len(list) :
        \A r \in store : r.id = list[k].id => r.favorite = list[k].favorite
====
